---- MODULE Spec2Model ----
(***************************************************************************)
(* A model of the Perplexity chat-completions client                       *)
(* (src/src/perplexity-api/main.py): client construction, the payload      *)
(* built by query and stream_query, the HTTP POST and its failure, and the *)
(* line decoder of the streaming generator.                                *)
(*                                                                         *)
(* Text is modelled as sequences: a response line is a sequence of         *)
(* one-character strings (the symbol "xFF" stands for the byte 0xFF, which *)
(* never occurs in valid UTF-8); a credential is a sequence of ASCII code  *)
(* points.  An Optional value is a sequence of length 0 (None) or 1.       *)
(***************************************************************************)
EXTENDS Integers, Sequences, FiniteSets, TLC

\* ------------------------------------------------------------ bounds
\* Requests a client sends in one behaviour.
MaxCalls == 3
\* Lines the transport delivers on one stream.
MaxLines == 3

\* ------------------------------------------------- program constants
Temperature == 2          \* 0.2, in tenths
TopP == 9                 \* 0.9, in tenths
PresencePenalty == 0
FrequencyPenalty == 1
TopK == 0
Timeout == 30
BaseUrl == "https://api.perplexity.ai/chat/completions"
Model == "llama-3.1-sonar-small-128k-online"
DefaultSystemPrompt == "Be precise and concise."

\* -------------------------------------------------------- optionals
None == <<>>
Some(x) == <<x>>

\* ------------------------------------------------------- json.loads
\* The alphabet of the modelled lines.  No JSON literal (true, false, null,
\* NaN, Infinity) and no string or object can be spelled with it, so the JSON
\* texts over it are: whitespace, numbers, and arrays of at most one element.
Digits == {"0", "1", "2"}
JsonWs == {" ", "\t"}
DigitVal(c) == CASE c = "0" -> 0 [] c = "1" -> 1 [] c = "2" -> 2

NoVal == [t |-> "none", n |-> 0, items |-> <<>>]
NumVal(n) == [t |-> "num", n |-> n, items |-> <<>>]
ArrVal(items) == [t |-> "arr", n |-> 0, items |-> items]
ParseFail == [ok |-> FALSE, val |-> NoVal, next |-> 0]

RECURSIVE SkipWs(_, _)
SkipWs(s, i) ==
    IF i <= Len(s) /\ s[i] \in JsonWs THEN SkipWs(s, i + 1) ELSE i

\* The digits of [1-9][0-9]* from position i on, with the value so far.
RECURSIVE ScanDigits(_, _, _)
ScanDigits(s, i, acc) ==
    IF i <= Len(s) /\ s[i] \in Digits
    THEN ScanDigits(s, i + 1, acc * 10 + DigitVal(s[i]))
    ELSE [ok |-> TRUE, val |-> NumVal(acc), next |-> i]

\* One JSON value starting at position i: a number (0, or a digit string with
\* no leading zero) or an array.
RECURSIVE ParseValue(_, _)
ParseValue(s, i) ==
    IF i > Len(s) THEN ParseFail
    ELSE IF s[i] = "0" THEN [ok |-> TRUE, val |-> NumVal(0), next |-> i + 1]
    ELSE IF s[i] \in Digits THEN ScanDigits(s, i, 0)
    ELSE IF s[i] = "["
    THEN LET j == SkipWs(s, i + 1)
         IN  IF j <= Len(s) /\ s[j] = "]"
             THEN [ok |-> TRUE, val |-> ArrVal(<<>>), next |-> j + 1]
             ELSE LET r == ParseValue(s, j)
                      k == SkipWs(s, r.next)
                  IN  IF r.ok /\ k <= Len(s) /\ s[k] = "]"
                      THEN [ok |-> TRUE, val |-> ArrVal(<<r.val>>), next |-> k + 1]
                      ELSE ParseFail
    ELSE ParseFail

\* json.loads(text): one value, whitespace around it allowed, nothing after it.
JsonLoads(s) ==
    LET r == ParseValue(s, SkipWs(s, 1))
    IN  IF r.ok /\ SkipWs(s, r.next) > Len(s)
        THEN [ok |-> TRUE, val |-> r.val]
        ELSE [ok |-> FALSE, val |-> NoVal]

\* ------------------------------------------------ bytes and strings
AsciiWs == {" ", "\t"}

RECURSIVE LStrip(_)
LStrip(s) == IF s # <<>> /\ Head(s) \in AsciiWs THEN LStrip(Tail(s)) ELSE s

RECURSIVE RStrip(_)
RStrip(s) ==
    IF s # <<>> /\ s[Len(s)] \in AsciiWs THEN RStrip(SubSeq(s, 1, Len(s) - 1)) ELSE s

\* bytes.strip()
Strip(s) == RStrip(LStrip(s))

\* bytes.decode('utf-8') succeeds iff every byte sequence is valid UTF-8.
Utf8Valid(line) == \A i \in 1..Len(line) : line[i] # "xFF"

DataPrefix == <<"d", "a", "t", "a", ":", " ">>

StartsWith(s, p) == Len(s) >= Len(p) /\ SubSeq(s, 1, Len(p)) = p

\* data[6:]
DropPrefix(s) == SubSeq(s, Len(DataPrefix) + 1, Len(s))

\* ------------------------------------------------ the stream decoder
\* `if line and line.strip()`
LineNonBlank(line) == line # <<>> /\ Strip(line) # <<>>

\* The text handed to json.loads for a line that decodes as UTF-8.
DataText(line) == IF StartsWith(line, DataPrefix) THEN DropPrefix(line) ELSE line

\* One iteration of the loop over response.iter_lines(): the line is skipped,
\* yields its decoded value, or raises UnicodeDecodeError (which the
\* `except json.JSONDecodeError` does not catch).
ProcessLine(line) ==
    IF ~LineNonBlank(line) THEN [res |-> "skip", val |-> NoVal]
    ELSE IF ~Utf8Valid(line) THEN [res |-> "raise", val |-> NoVal]
    ELSE LET r == JsonLoads(DataText(line))
         IN  IF r.ok THEN [res |-> "yield", val |-> r.val]
             ELSE [res |-> "skip", val |-> NoVal]

\* ------------------------------------------------------ dictionaries
\* d[k] = v on a dict
DictSet(d, k, v) == [x \in DOMAIN d \cup {k} |-> IF x = k THEN v ELSE d[x]]

\* d.update(e)
DictUpdate(d, e) == [x \in DOMAIN d \cup DOMAIN e |-> IF x \in DOMAIN e THEN e[x] ELSE d[x]]

\* ------------------------------------------------------ configuration
\* Python truthiness of an Optional[int], an Optional[list] or an
\* Optional[str]: None, 0, [] and "" are falsy.
TruthyInt(o) == o # None /\ o[1] # 0
TruthyList(o) == o # None /\ o[1] # <<>>
TruthyStr(o) == o # None /\ o[1] # ""
\* The same for a credential, a string held as its code points.
TruthyText(o) == o # None /\ o[1] # <<>>

\* PerplexityConfig(api_key=...): every other field takes its default.
PerplexityConfig(api_key) ==
    [ api_key |-> api_key,
      base_url |-> BaseUrl,
      model |-> Model,
      temperature |-> Temperature,
      top_p |-> TopP,
      max_tokens |-> None,
      presence_penalty |-> PresencePenalty,
      frequency_penalty |-> FrequencyPenalty,
      search_domain_filter |-> None,
      return_images |-> FALSE,
      return_related_questions |-> FALSE,
      search_recency_filter |-> Some("month"),
      top_k |-> TopK ]

\* ------------------------------------------------------------ Fernet
\* Fernet as a keyed, reversible transformation of bytes (its timestamp, IV
\* and HMAC are left out): decrypting under the key that encrypted gives the
\* bytes back, under another key it does not.
FernetKeys == {7, 200}
FernetEncrypt(k, bytes) == [i \in 1..Len(bytes) |-> (bytes[i] + k) % 256]
FernetDecrypt(k, token) == [i \in 1..Len(token) |-> (token[i] - k + 256) % 256]

\* "Bearer "
BearerPrefix == <<66, 101, 97, 114, 101, 114, 32>>

\* --------------------------------------------------------- payloads
Messages(prompt, system_prompt) ==
    << [role |-> "system", content |-> system_prompt],
       [role |-> "user", content |-> prompt] >>

\* A payload that tests max_tokens with `is not None`: 0 is sent.
QueryPayloadNotNone(cfg, prompt, system_prompt) ==
    LET p0 == [ model |-> cfg.model,
                messages |-> Messages(prompt, system_prompt),
                temperature |-> cfg.temperature,
                top_p |-> cfg.top_p,
                presence_penalty |-> cfg.presence_penalty,
                frequency_penalty |-> cfg.frequency_penalty,
                stream |-> FALSE ]
        p1 == IF cfg.max_tokens # None
              THEN DictSet(p0, "max_tokens", cfg.max_tokens[1]) ELSE p0
        p2 == IF TruthyList(cfg.search_domain_filter)
              THEN DictSet(p1, "search_domain_filter", cfg.search_domain_filter[1]) ELSE p1
        p3 == IF TruthyStr(cfg.search_recency_filter)
              THEN DictSet(p2, "search_recency_filter", cfg.search_recency_filter[1]) ELSE p2
    IN  DictUpdate(p3, [ return_images |-> cfg.return_images,
                         return_related_questions |-> cfg.return_related_questions,
                         top_k |-> cfg.top_k ])

\* The payload query builds.
QueryPayload(cfg, prompt, system_prompt) ==
    LET p0 == [ model |-> cfg.model,
                messages |-> Messages(prompt, system_prompt),
                temperature |-> cfg.temperature,
                top_p |-> cfg.top_p,
                presence_penalty |-> cfg.presence_penalty,
                frequency_penalty |-> cfg.frequency_penalty,
                stream |-> FALSE ]
        p1 == IF TruthyInt(cfg.max_tokens)
              THEN DictSet(p0, "max_tokens", cfg.max_tokens[1]) ELSE p0
        p2 == IF TruthyList(cfg.search_domain_filter)
              THEN DictSet(p1, "search_domain_filter", cfg.search_domain_filter[1]) ELSE p1
        p3 == IF TruthyStr(cfg.search_recency_filter)
              THEN DictSet(p2, "search_recency_filter", cfg.search_recency_filter[1]) ELSE p2
    IN  DictUpdate(p3, [ return_images |-> cfg.return_images,
                         return_related_questions |-> cfg.return_related_questions,
                         top_k |-> cfg.top_k ])

\* The payload stream_query builds (its own copy of the code above).
StreamPayload(cfg, prompt, system_prompt) ==
    LET p0 == [ model |-> cfg.model,
                messages |-> Messages(prompt, system_prompt),
                temperature |-> cfg.temperature,
                top_p |-> cfg.top_p,
                presence_penalty |-> cfg.presence_penalty,
                frequency_penalty |-> cfg.frequency_penalty,
                stream |-> TRUE ]
        p1 == IF TruthyInt(cfg.max_tokens)
              THEN DictSet(p0, "max_tokens", cfg.max_tokens[1]) ELSE p0
        p2 == IF TruthyList(cfg.search_domain_filter)
              THEN DictSet(p1, "search_domain_filter", cfg.search_domain_filter[1]) ELSE p1
        p3 == IF TruthyStr(cfg.search_recency_filter)
              THEN DictSet(p2, "search_recency_filter", cfg.search_recency_filter[1]) ELSE p2
    IN  DictUpdate(p3, [ return_images |-> cfg.return_images,
                         return_related_questions |-> cfg.return_related_questions,
                         top_k |-> cfg.top_k ])

\* ------------------------------------------------------------ errors
NoErr == [type |-> "none", msg |-> "", cause |-> "none"]
\* `raise ValueError("API key not found. ...")`: the ConfigurationError.
ConfigurationError ==
    [type |-> "ValueError", msg |-> "API key not found", cause |-> "none"]
\* `raise RuntimeError(f"API request failed: {str(e)}")`: the ApiRequestError.
ApiRequestError(cause) ==
    [type |-> "RuntimeError", msg |-> "API request failed", cause |-> cause]
\* `raise RuntimeError(f"Streaming request failed: {str(e)}")`: the StreamRequestError.
StreamRequestError(cause) ==
    [type |-> "RuntimeError", msg |-> "Streaming request failed", cause |-> cause]
\* bytes.decode raising on a line that is not UTF-8; nothing catches it.
UnicodeDecodeError ==
    [type |-> "UnicodeDecodeError", msg |-> "invalid start byte", cause |-> "none"]

\* How requests.post followed by raise_for_status can fail: each is a
\* requests.exceptions.RequestException.
PostFailures == {"ConnectionError", "Timeout", "HTTPError"}
\* How reading the body can fail once the stream is open.
ReadFailures == {"ChunkedEncodingError", "ConnectionError"}

\* ------------------------------------------------------------- state
VARIABLES
    environ,       \* what os.getenv("PPLX_API_KEY") gives, after load_dotenv()
    apiKeyArg,     \* the api_key argument __init__ was called with
    client,        \* "unconstructed", "ready", or "failed" (__init__ raised)
    config,        \* self.config
    fernetKey,     \* self._key (0 before construction)
    encryptedKey,  \* self._encrypted_key
    wire,          \* the HTTP requests sent so far, as the endpoint sees them
    outcome,       \* what the last __init__ or query call gave its caller
    gen,           \* the generator stream_query returned
    delivered,     \* the lines iter_lines has handed to the generator
    yielded        \* the values the generator has handed to its consumer

vars == <<environ, apiKeyArg, client, config, fernetKey, encryptedKey, wire, outcome, gen, delivered, yielded>>

\* outcome.op: the call ("init" or "query"); prompt, system_prompt: its
\* arguments; post: how its POST ended; kind: "return" or "raise".
NoOutcome == [op |-> "none", prompt |-> "", system_prompt |-> "", post |-> "none",
              kind |-> "none", err |-> NoErr, val |-> NoVal]
\* gen.state: "none" (no generator), "created" (no code has run), "running"
\* (inside a next() call, between two lines), "suspended" (at the yield),
\* "done" (returned: StopIteration), "failed" (raised), "closed" (the
\* consumer dropped it).  gen.post: how its POST ended.  gen.io: the
\* connection as the transport left it: "open", "eof" or one of ReadFailures.
NoGen == [state |-> "none", prompt |-> "", system_prompt |-> "", post |-> "none",
          io |-> "none", err |-> NoErr]

\* ------------------------------------------------------------ inputs
CredA == <<115, 107, 45, 65>>      \* "sk-A"
CredB == <<115, 107, 45, 66>>      \* "sk-B"
EmptyText == <<>>
ApiKeyArgs == {None, Some(EmptyText), Some(CredA)}
EnvValues == {None, Some(EmptyText), Some(CredB)}
Prompts == {"p1", "p2"}
SystemPrompts == {DefaultSystemPrompt, "s1"}
\* Response bodies of a successful query.
QueryBodies == {<<"[", "1", "]">>}

LineData1 == <<"d", "a", "t", "a", ":", " ", "1">>
LineData2 == <<"d", "a", "t", "a", ":", " ", "[", "2", "]">>
LineRaw == <<"1", "2", " ">>
LineBlank == <<>>
LineSpaces == <<" ", "\t">>
LineSentinel == <<"d", "a", "t", "a", ":", " ", "[", "x", "]">>
LineNotJson == <<"x">>
LineEmptyData == <<"d", "a", "t", "a", ":", " ">>
LineNotUtf8 == <<"d", "a", "t", "a", ":", " ", "xFF">>
\* Every kind of line.
AllLines == {LineData1, LineData2, LineRaw, LineBlank, LineSpaces, LineSentinel,
             LineNotJson, LineEmptyData, LineNotUtf8}

Init ==
    /\ environ \in EnvValues
    /\ apiKeyArg = None
    /\ client = "unconstructed"
    /\ config = PerplexityConfig(None)
    /\ fernetKey = 0
    /\ encryptedKey = <<>>
    /\ wire = <<>>
    /\ outcome = NoOutcome
    /\ gen = NoGen
    /\ delivered = <<>>
    /\ yielded = <<>>

\* ------------------------------------------------------ construction
\* `api_key or os.getenv("PPLX_API_KEY")`
ChooseKey(api_key, env) == IF TruthyText(api_key) THEN api_key ELSE env

\* A constructor that rejects only a missing key: `is None` for `not`.
ConstructNoneCheck(api_key, k) ==
    /\ client = "unconstructed"
    /\ apiKeyArg' = api_key
    /\ LET key == ChooseKey(api_key, environ)
       IN  IF key = None
           THEN /\ client' = "failed"
                /\ outcome' = [NoOutcome EXCEPT !.op = "init", !.kind = "raise",
                                                !.err = ConfigurationError]
                /\ UNCHANGED <<config, fernetKey, encryptedKey>>
           ELSE /\ client' = "ready"
                /\ config' = PerplexityConfig(key)
                /\ fernetKey' = k
                /\ encryptedKey' = FernetEncrypt(k, key[1])
                /\ outcome' = [NoOutcome EXCEPT !.op = "init", !.kind = "return"]
    /\ UNCHANGED <<environ, wire, gen, delivered, yielded>>

\* PerplexityAPI(api_key), Fernet.generate_key() giving k.
Construct(api_key, k) ==
    /\ client = "unconstructed"
    /\ apiKeyArg' = api_key
    /\ LET key == ChooseKey(api_key, environ)
       IN  IF ~TruthyText(key)
           THEN /\ client' = "failed"
                /\ outcome' = [NoOutcome EXCEPT !.op = "init", !.kind = "raise",
                                                !.err = ConfigurationError]
                /\ UNCHANGED <<config, fernetKey, encryptedKey>>
           ELSE /\ client' = "ready"
                /\ config' = PerplexityConfig(key)
                /\ fernetKey' = k
                /\ encryptedKey' = FernetEncrypt(k, key[1])
                /\ outcome' = [NoOutcome EXCEPT !.op = "init", !.kind = "return"]
    /\ UNCHANGED <<environ, wire, gen, delivered, yielded>>

\* self._fernet.decrypt(self._encrypted_key).decode()
DecryptedKey == FernetDecrypt(fernetKey, encryptedKey)

\* Headers carrying the stored token as it is, not decrypted.
GetHeadersNoDecrypt ==
    [ Accept |-> "application/json",
      ContentType |-> "application/json",
      Authorization |-> BearerPrefix \o encryptedKey ]

\* _get_headers()
GetHeaders ==
    [ Accept |-> "application/json",
      ContentType |-> "application/json",
      Authorization |-> BearerPrefix \o DecryptedKey ]

\* The arguments of one requests.post call.
PostRequest(payload, stream) ==
    [ url |-> config.base_url, headers |-> GetHeaders, json |-> payload,
      stream |-> stream, timeout |-> Timeout ]

\* --------------------------------------------------------------- query
\* What query gives its caller: response.json(), or the RuntimeError made of
\* the RequestException.
QueryOutcome(prompt, system_prompt, post, body) ==
    IF post = "ok"
    THEN [op |-> "query", prompt |-> prompt, system_prompt |-> system_prompt,
          post |-> post, kind |-> "return", err |-> NoErr, val |-> JsonLoads(body).val]
    ELSE [op |-> "query", prompt |-> prompt, system_prompt |-> system_prompt,
          post |-> post, kind |-> "raise", err |-> ApiRequestError(post), val |-> NoVal]

\* A query that tries the POST again when it fails.
QueryRetry(prompt, system_prompt, post, body) ==
    /\ client = "ready"
    /\ gen.state # "running"
    /\ Len(wire) < MaxCalls
    /\ LET req == PostRequest(QueryPayload(config, prompt, system_prompt), FALSE)
       IN  wire' = IF post = "ok" THEN Append(wire, req) ELSE wire \o <<req, req>>
    /\ outcome' = QueryOutcome(prompt, system_prompt, post, body)
    /\ UNCHANGED <<environ, apiKeyArg, client, config, fernetKey, encryptedKey, gen, delivered, yielded>>

\* query(prompt, system_prompt), the POST ending as `post`: "ok" with the
\* response body `body`, or one of PostFailures.
Query(prompt, system_prompt, post, body) ==
    /\ client = "ready"
    /\ gen.state # "running"
    /\ Len(wire) < MaxCalls
    /\ wire' = Append(wire, PostRequest(QueryPayload(config, prompt, system_prompt), FALSE))
    /\ outcome' = QueryOutcome(prompt, system_prompt, post, body)
    /\ UNCHANGED <<environ, apiKeyArg, client, config, fernetKey, encryptedKey, gen, delivered, yielded>>

\* A caller's assignment to a field of client.config, before the client's
\* first request (the configuration of a client in use does not change).
Configure(field, value) ==
    /\ client = "ready"
    /\ wire = <<>>
    /\ gen.state = "none"
    /\ config[field] # value
    /\ config' = [config EXCEPT ![field] = value]
    /\ UNCHANGED <<environ, apiKeyArg, client, fernetKey, encryptedKey, wire, outcome,
                   gen, delivered, yielded>>

\* -------------------------------------------------------- stream_query
\* stream_query(prompt, system_prompt): the call returns a generator and runs
\* none of the function's code.
StreamQuery(prompt, system_prompt) ==
    /\ client = "ready"
    /\ gen.state \in {"none", "done", "failed", "closed"}
    /\ Len(wire) < MaxCalls
    /\ gen' = [NoGen EXCEPT !.state = "created", !.prompt = prompt,
                            !.system_prompt = system_prompt]
    /\ delivered' = <<>>
    /\ yielded' = <<>>
    /\ UNCHANGED <<environ, apiKeyArg, client, config, fernetKey, encryptedKey, wire, outcome>>

\* A stream that skips raise_for_status: a non-2xx response is read as a body.
StreamStartNoStatusCheck(post) ==
    /\ gen.state = "created"
    /\ wire' = Append(wire, PostRequest(StreamPayload(config, gen.prompt, gen.system_prompt), TRUE))
    /\ gen' = IF post \in {"ok", "HTTPError"}
              THEN [gen EXCEPT !.state = "running", !.post = post, !.io = "open"]
              ELSE [gen EXCEPT !.state = "failed", !.post = post,
                               !.err = StreamRequestError(post)]
    /\ UNCHANGED <<environ, apiKeyArg, client, config, fernetKey, encryptedKey, outcome,
                   delivered, yielded>>

\* The consumer's first next(): the payload is built and POSTed, the POST
\* ending as `post`.
StreamStart(post) ==
    /\ gen.state = "created"
    /\ wire' = Append(wire, PostRequest(StreamPayload(config, gen.prompt, gen.system_prompt), TRUE))
    /\ gen' = IF post = "ok"
              THEN [gen EXCEPT !.state = "running", !.post = post, !.io = "open"]
              ELSE [gen EXCEPT !.state = "failed", !.post = post,
                               !.err = StreamRequestError(post)]
    /\ UNCHANGED <<environ, apiKeyArg, client, config, fernetKey, encryptedKey, outcome,
                   delivered, yielded>>

\* A generator that keeps reading after it decoded a value.
AfterLineEager(g, r) ==
    CASE r.res = "yield" -> [g EXCEPT !.state = "running"]
      [] r.res = "skip"  -> [g EXCEPT !.state = "running"]
      [] r.res = "raise" -> [g EXCEPT !.state = "failed", !.err = UnicodeDecodeError]

\* The generator after one iteration of its loop on a line.
AfterLine(g, r) ==
    CASE r.res = "yield" -> [g EXCEPT !.state = "suspended"]
      [] r.res = "skip"  -> [g EXCEPT !.state = "running"]
      [] r.res = "raise" -> [g EXCEPT !.state = "failed", !.err = UnicodeDecodeError]

\* iter_lines() hands the generator its next line, inside a next() call of
\* the consumer.
StreamLine(line) ==
    /\ gen.state \in {"running", "suspended"}
    /\ gen.io = "open"
    /\ Len(delivered) < MaxLines
    /\ delivered' = Append(delivered, line)
    /\ LET r == ProcessLine(line)
       IN  /\ gen' = AfterLine(gen, r)
           /\ yielded' = IF r.res = "yield" THEN Append(yielded, r.val) ELSE yielded
    /\ UNCHANGED <<environ, apiKeyArg, client, config, fernetKey, encryptedKey, wire, outcome>>

\* The body ends: the loop and the generator finish (StopIteration).
StreamEnd ==
    /\ gen.state \in {"running", "suspended"}
    /\ gen.io = "open"
    /\ gen' = [gen EXCEPT !.state = "done", !.io = "eof"]
    /\ UNCHANGED <<environ, apiKeyArg, client, config, fernetKey, encryptedKey, wire, outcome,
                   delivered, yielded>>

\* A read failure taken for the end of the body.
AfterReadFailureSwallowed(g, cause) ==
    [g EXCEPT !.state = "done", !.io = cause]

\* The generator after iter_lines() raised the RequestException `cause`.
AfterReadFailure(g, cause) ==
    [g EXCEPT !.state = "failed", !.io = cause, !.err = StreamRequestError(cause)]

\* The transport fails while the body is read.
StreamDrop(cause) ==
    /\ gen.state \in {"running", "suspended"}
    /\ gen.io = "open"
    /\ gen' = AfterReadFailure(gen, cause)
    /\ UNCHANGED <<environ, apiKeyArg, client, config, fernetKey, encryptedKey, wire, outcome,
                   delivered, yielded>>

\* The consumer stops consuming: the generator is closed or dropped.
StreamClose ==
    /\ gen.state \in {"created", "suspended"}
    /\ gen' = [gen EXCEPT !.state = "closed"]
    /\ UNCHANGED <<environ, apiKeyArg, client, config, fernetKey, encryptedKey, wire, outcome,
                   delivered, yielded>>

\* ---------------------------------------------------- specifications
PostResults == {"ok"} \cup PostFailures

DoConstruct == \E a \in ApiKeyArgs, k \in FernetKeys : Construct(a, k)
\* The body of a response: of a failed POST none is read.
BodiesOf(post) == IF post = "ok" THEN QueryBodies ELSE {<<>>}
DoQuery(P, S) ==
    \E p \in P, s \in S, post \in PostResults :
        \E body \in BodiesOf(post) : Query(p, s, post, body)
DoStreamQuery(P, S) == \E p \in P, s \in S : StreamQuery(p, s)
DoStreamStart == \E post \in PostResults : StreamStart(post)
DoStreamDrop == \E cause \in ReadFailures : StreamDrop(cause)

\* The client's life: construction, then query and stream_query calls with
\* the default system prompt.
Next ==
    \/ DoConstruct
    \/ DoQuery(Prompts, {DefaultSystemPrompt})
    \/ DoStreamQuery(Prompts, {DefaultSystemPrompt})
    \/ DoStreamStart
    \/ StreamLine(LineData1)
    \/ StreamEnd
    \/ DoStreamDrop
    \/ StreamClose

Spec == Init /\ [][Next]_vars

\* A client constructed with the argument "sk-A".
InitReady ==
    /\ environ = None
    /\ apiKeyArg = Some(CredA)
    /\ client = "ready"
    /\ config = PerplexityConfig(Some(CredA))
    /\ fernetKey \in FernetKeys
    /\ encryptedKey = FernetEncrypt(fernetKey, CredA)
    /\ wire = <<>>
    /\ outcome = [NoOutcome EXCEPT !.op = "init", !.kind = "return"]
    /\ gen = NoGen
    /\ delivered = <<>>
    /\ yielded = <<>>

\* One stream after another, over every kind of line.
DoStreamLine == \E line \in AllLines : StreamLine(line)
NextStream ==
    \/ DoStreamQuery({"p1"}, {DefaultSystemPrompt})
    \/ DoStreamStart
    \/ DoStreamLine
    \/ StreamEnd
    \/ DoStreamDrop
    \/ StreamClose

SpecStream == InitReady /\ [][NextStream]_vars

\* The requests of a client under every configuration.
MaxTokensValues == {None, Some(0), Some(5)}
DomainFilterValues == {None, Some(<<>>), Some(<<"a.com">>)}
RecencyFilterValues == {None, Some(""), Some("month"), Some("day")}
DoConfigure ==
    \/ \E v \in MaxTokensValues : Configure("max_tokens", v)
    \/ \E v \in DomainFilterValues : Configure("search_domain_filter", v)
    \/ \E v \in RecencyFilterValues : Configure("search_recency_filter", v)
NextPayload ==
    \/ DoConfigure
    \/ DoQuery({"p1"}, SystemPrompts)
    \/ DoStreamQuery({"p1"}, SystemPrompts)
    \/ DoStreamStart
    \/ StreamEnd
    \/ StreamClose

SpecPayload == InitReady /\ [][NextPayload]_vars

\* ------------------------------------------------- claims: helpers
\* The credential the constructor was given: its argument or the environment's.
GivenCredential == ChooseKey(apiKeyArg, environ)[1]

LastRequest == wire[Len(wire)]

\* A line that is non-blank and parses as JSON once a leading "data: " is
\* stripped.
IsJsonLine(line) == LineNonBlank(line) /\ JsonLoads(DataText(line)).ok

\* The decoded values of the JSON lines among `lines`, in their order.
RECURSIVE ExpectedValues(_)
ExpectedValues(lines) ==
    IF lines = <<>> THEN <<>>
    ELSE (IF IsJsonLine(Head(lines)) THEN <<JsonLoads(DataText(Head(lines))).val>> ELSE <<>>)
         \o ExpectedValues(Tail(lines))

\* The payload the specification describes for a configuration, a prompt, a
\* system prompt and a mode.
AlwaysKeys == {"model", "messages", "temperature", "top_p", "presence_penalty",
               "frequency_penalty", "stream", "return_images",
               "return_related_questions", "top_k"}
IsReferencePayload(pl, cfg, prompt, system_prompt, stream) ==
    /\ DOMAIN pl = AlwaysKeys
                   \cup (IF TruthyInt(cfg.max_tokens) THEN {"max_tokens"} ELSE {})
                   \cup (IF TruthyList(cfg.search_domain_filter) THEN {"search_domain_filter"} ELSE {})
                   \cup (IF TruthyStr(cfg.search_recency_filter) THEN {"search_recency_filter"} ELSE {})
    /\ Len(pl.messages) = 2
    /\ pl.messages[1] = [role |-> "system", content |-> system_prompt]
    /\ pl.messages[2] = [role |-> "user", content |-> prompt]
    /\ pl.stream = stream
    /\ \A k \in AlwaysKeys \ {"messages", "stream"} : pl[k] = cfg[k]
    /\ \A k \in DOMAIN pl \ AlwaysKeys : pl[k] = cfg[k][1]

\* -------------------------------------------------------------- claims
\* C1: on a stream whose request succeeded and whose transport has not failed,
\* the values yielded are exactly the decoded values of the delivered lines
\* that are non-blank and parse as JSON after stripping "data: ", in order;
\* no line makes the generator fail, and it ends normally when the body ends.
C1_YieldsExactlyJsonLines ==
    (gen.post = "ok" /\ gen.io \in {"open", "eof"}) =>
        /\ yielded = ExpectedValues(delivered)
        /\ gen.err = NoErr
        /\ (gen.io = "eof" => gen.state = "done")

\* C2: no line makes stream_query raise: after a successful request the
\* generator fails only when the transport fails.
C2_NoLineRaises ==
    (gen.post = "ok" /\ gen.state = "failed") => gen.io \in ReadFailures

\* C3: a constructor given no credential, with none in the environment, has
\* raised the configuration error, left no usable client and sent no request,
\* in every later state.
C3_NoCredentialFailsAtConstruction ==
    (client # "unconstructed" /\ ~TruthyText(apiKeyArg) /\ ~TruthyText(environ)) =>
        /\ client = "failed"
        /\ outcome.op = "init" /\ outcome.kind = "raise"
        /\ outcome.err = ConfigurationError
        /\ wire = <<>>
        /\ gen = NoGen
C3_Witness ==
    /\ client = "failed"
    /\ apiKeyArg = Some(EmptyText)
    /\ environ = Some(EmptyText)
    /\ outcome.err = ConfigurationError

\* C4: a query call sends exactly one request, and when its POST fails the
\* call raises the API request error carrying the cause and returns no value.
IsQueryStep == Len(wire') > Len(wire) /\ ~wire'[Len(wire')].stream
C4_QueryFailureRaisesOnce ==
    [][IsQueryStep =>
         /\ Len(wire') = Len(wire) + 1
         /\ outcome'.op = "query"
         /\ (outcome'.post \in PostFailures =>
               /\ outcome'.kind = "raise"
               /\ outcome'.err = ApiRequestError(outcome'.post)
               /\ outcome'.val = NoVal)]_vars
C4_Witness ==
    /\ outcome.op = "query" /\ outcome.post = "HTTPError"
    /\ outcome.kind = "raise" /\ outcome.err.cause = "HTTPError"
    /\ Len(wire) = 1

\* C5: a stream whose POST failed has raised the streaming request error,
\* has yielded nothing and has read no line of the body.
C5_StreamPostFailureYieldsNothing ==
    gen.post \in PostFailures =>
        /\ gen.state = "failed"
        /\ gen.err = StreamRequestError(gen.post)
        /\ gen.io = "none"
        /\ yielded = <<>>
        /\ delivered = <<>>
C5_Witness ==
    /\ gen.post = "HTTPError" /\ gen.state = "failed"
    /\ wire # <<>> /\ LastRequest.stream

\* C6: the payload of the last request sent is the reference payload of the
\* configuration and of the call's prompt and system prompt, with stream
\* false for query and true for stream_query.
C6_PayloadIsReference ==
    /\ (wire # <<>> /\ ~LastRequest.stream) =>
          IsReferencePayload(LastRequest.json, config, outcome.prompt,
                             outcome.system_prompt, FALSE)
    /\ (wire # <<>> /\ LastRequest.stream /\ gen.post # "none") =>
          IsReferencePayload(LastRequest.json, config, gen.prompt,
                             gen.system_prompt, TRUE)
C6_Witness ==
    /\ Len(wire) = 2
    /\ ~wire[1].stream /\ wire[2].stream
    /\ config.max_tokens = Some(0)
    /\ config.search_domain_filter = Some(<<"a.com">>)
    /\ config.search_recency_filter = Some("")
    /\ DOMAIN wire[1].json = AlwaysKeys \cup {"search_domain_filter"}
    /\ wire[1].json.messages[1].content = "s1"

\* C7: calls leave the configuration and the credential holder as the
\* constructor made them, every request carries "Bearer " and the credential
\* given at construction, and two query requests with the same prompt and
\* system prompt have the same payload and headers.
C7_StatelessAcrossCalls ==
    client = "ready" =>
        /\ config = PerplexityConfig(Some(GivenCredential))
        /\ DecryptedKey = GivenCredential
        /\ \A i \in 1..Len(wire) :
             wire[i].headers.Authorization = BearerPrefix \o GivenCredential
        /\ \A i, j \in 1..Len(wire) :
             (~wire[i].stream /\ ~wire[j].stream
              /\ wire[i].json.messages = wire[j].json.messages) =>
                 (wire[i].json = wire[j].json /\ wire[i].headers = wire[j].headers)
\* A query, then a stream dropped after its first value, then the same query,
\* which fails.
C7_Witness ==
    /\ Len(wire) = 3
    /\ ~wire[1].stream /\ wire[2].stream /\ ~wire[3].stream
    /\ wire[1].json.messages = wire[3].json.messages
    /\ gen.state = "closed" /\ Len(yielded) = 1
    /\ outcome.kind = "raise"
    /\ GivenCredential = CredB

\* C8: no stored field of a constructed client or of its configuration holds
\* the plaintext credential.
C8_NoPlaintextStored ==
    client = "ready" =>
        /\ config.api_key # Some(GivenCredential)
        /\ encryptedKey # GivenCredential

\* C9: the generator hands each value over before it reads on: it is between
\* two lines only after a line that gave no value, and while the consumer
\* holds the k-th value, or has stopped after it, the last line read is the
\* line that value came from.
C9_LazyDecoding ==
    /\ (gen.state = "running" /\ delivered # <<>>) =>
          ProcessLine(delivered[Len(delivered)]).res = "skip"
    /\ (gen.state \in {"suspended", "closed"} /\ yielded # <<>>) =>
          /\ delivered # <<>>
          /\ ProcessLine(delivered[Len(delivered)]).res = "yield"
          /\ ProcessLine(delivered[Len(delivered)]).val = yielded[Len(yielded)]
    /\ (gen.state \in {"suspended", "closed"} /\ yielded = <<>>) => delivered = <<>>
C9_Witness ==
    /\ gen.state = "closed"
    /\ Len(yielded) = 1
    /\ Len(delivered) = 2
    /\ Len(delivered) < MaxLines

\* C10: when the transport fails after k values were yielded, the consumer
\* has exactly the values of the lines read so far, in order, and the
\* generator has failed with the streaming request error carrying the cause.
C10_MidStreamFailureConverted ==
    gen.io \in ReadFailures =>
        /\ gen.state = "failed"
        /\ gen.err = StreamRequestError(gen.io)
        /\ yielded = ExpectedValues(delivered)
C10_Witness ==
    /\ gen.io = "ChunkedEncodingError"
    /\ gen.state = "failed"
    /\ Len(yielded) = 2
    /\ Len(delivered) = 3
====
